---------------------------- MODULE Spec2Model ----------------------------
(***************************************************************************)
(* Model of src/src/fastapi_app/models.py: the resolution of the database  *)
(* connection URL from the process environment (build_url) and the module  *)
(* level start-up sequence  url = build_url(); engine = create_engine(url).*)
(*                                                                         *)
(* Python strings that the code inspects are sequences of one-character    *)
(* strings, so that splitting, stripping, substring search and int() are   *)
(* computed and not assumed.  An Optional[T] is a tuple of length 0 (None) *)
(* or 1 (the value).  A dict is a function; the empty dict is << >>.       *)
(***************************************************************************)
EXTENDS Integers, Sequences, FiniteSets, TLC

\* Largest number of environment variables that are set at the same time.
MaxSet == 6

None == << >>
Some(x) == << x >>
EmptyDict == << >>

-----------------------------------------------------------------------------
(* String literals of the source *)
S_host == <<"h", "o", "s", "t">>
S_dbname == <<"d", "b", "n", "a", "m", "e">>
S_user == <<"u", "s", "e", "r">>
S_password == <<"p", "a", "s", "s", "w", "o", "r", "d">>
S_port == <<"p", "o", "r", "t">>
S_sslmode == <<"s", "s", "l", "m", "o", "d", "e">>
S_require == <<"r", "e", "q", "u", "i", "r", "e">>
S_azure_com == <<"a", "z", "u", "r", "e", ".", "c", "o", "m">>
S_5432 == <<"5", "4", "3", "2">>
DefaultDriver == <<"p", "o", "s", "t", "g", "r", "e", "s", "q", "l", "+", "p", "s", "y", "c", "o", "p", "g">>
DefaultPort == 5432

-----------------------------------------------------------------------------
(* Python built-ins used by the code *)

Whitespace == {" ", "\t", "\n", "\r", "\f"}
DigitChars == <<"0", "1", "2", "3", "4", "5", "6", "7", "8", "9">>
IsDigit(c) == \E i \in 1..10 : DigitChars[i] = c
DigitVal(c) == (CHOOSE i \in 1..10 : DigitChars[i] = c) - 1

RECURSIVE lstrip(_)
lstrip(s) == IF s # << >> /\ Head(s) \in Whitespace THEN lstrip(Tail(s)) ELSE s

RECURSIVE rstrip(_)
rstrip(s) ==
    IF s # << >> /\ s[Len(s)] \in Whitespace
    THEN rstrip(SubSeq(s, 1, Len(s) - 1))
    ELSE s

\* str.strip()
strip(s) == rstrip(lstrip(s))

RECURSIVE split_ws(_, _, _)
split_ws(s, cur, acc) ==
    IF s = << >>
    THEN IF cur = << >> THEN acc ELSE Append(acc, cur)
    ELSE IF Head(s) \in Whitespace
         THEN split_ws(Tail(s), << >>, IF cur = << >> THEN acc ELSE Append(acc, cur))
         ELSE split_ws(Tail(s), Append(cur, Head(s)), acc)

\* str.split() without argument: runs of whitespace separate, no empty tokens
split(s) == split_ws(s, << >>, << >>)

\* "=" in token
HasEq(token) == \E i \in 1..Len(token) : token[i] = "="

FirstEq(token) ==
    CHOOSE i \in 1..Len(token) :
        token[i] = "=" /\ \A j \in 1..(i - 1) : token[j] # "="

\* token.split("=", 1) for a token that contains "="
split_eq(token) ==
    LET i == FirstEq(token)
    IN  << SubSeq(token, 1, i - 1), SubSeq(token, i + 1, Len(token)) >>

\* sub in s
Contains(sub, s) ==
    \E i \in 0..(Len(s) - Len(sub)) : SubSeq(s, i + 1, i + Len(sub)) = sub

\* int(str): surrounding whitespace, an optional sign, digits with single
\* underscores between digits
IntBody(s) ==
    LET t == strip(s)
    IN  IF t # << >> /\ t[1] \in {"+", "-"} THEN Tail(t) ELSE t

IntNegative(s) == LET t == strip(s) IN t # << >> /\ t[1] = "-"

IsIntLiteral(s) ==
    LET b == IntBody(s)
    IN  /\ b # << >>
        /\ \A i \in 1..Len(b) :
              \/ IsDigit(b[i])
              \/ /\ b[i] = "_"
                 /\ i > 1 /\ i < Len(b)
                 /\ IsDigit(b[i - 1]) /\ IsDigit(b[i + 1])

RECURSIVE DigitsValue(_, _)
DigitsValue(b, acc) ==
    IF b = << >> THEN acc
    ELSE IF Head(b) = "_" THEN DigitsValue(Tail(b), acc)
         ELSE DigitsValue(Tail(b), 10 * acc + DigitVal(Head(b)))

int(s) == IF IntNegative(s) THEN 0 - DigitsValue(IntBody(s), 0) ELSE DigitsValue(IntBody(s), 0)

\* truth value of an Optional[str]: None and "" are falsy
Truthy(o) == o # None /\ o[1] # << >>

PyOr_prefixed_first(a, b) == IF Truthy(b) THEN b ELSE a

\* a or b
PyOr(a, b) == IF Truthy(a) THEN a ELSE b

\* all([host, name, user, pwd])
all(xs) == \A i \in 1..Len(xs) : Truthy(xs[i])

DictSet(d, k, v) == [x \in (DOMAIN d) \cup {k} |-> IF x = k THEN v ELSE d[x]]

\* d.get(k, default)
DictGet(d, k, default) == IF k \in DOMAIN d THEN d[k] ELSE default

\* os.getenv(name)
getenv(e, name) == IF name \in DOMAIN e THEN Some(e[name]) ELSE None

\* os.getenv(name, default)
getenv_default(e, name, default) == IF name \in DOMAIN e THEN e[name] ELSE default

-----------------------------------------------------------------------------
(* sqlalchemy.engine.URL.create(drivername, username=None, password=None,  *)
(* host=None, port=None, database=None, query={}): the first positional    *)
(* argument is the driver name, every other component defaults to None.    *)
URL_create(drivername, username, password, host, port, database, query) ==
    [drivername |-> drivername, username |-> username, password |-> password,
     host |-> host, port |-> port, database |-> database, query |-> query]

Return(u, lg) == [kind |-> "return", exc |-> "", msg |-> "", value |-> Some(u), log |-> lg]
Raise(exc, msg, lg) == [kind |-> "raise", exc |-> exc, msg |-> msg, value |-> None, log |-> lg]

MsgIncomplete == "AZURE_POSTGRESQL_CONNECTIONSTRING is incomplete."
MsgNoConfig == "No database configuration found. Set one of: DATABASE_URL, AZURE_POSTGRESQL_CONNECTIONSTRING, or DB_HOST/DB_NAME/DB_USER/DB_PASSWORD."
LogDatabaseUrl == "Using DATABASE_URL from environment."
LogAzure == "Using AZURE_POSTGRESQL_CONNECTIONSTRING."
LogSplit == "Using split DB_* variables."

-----------------------------------------------------------------------------
(* parse_azure_conn_str *)

RECURSIVE parse_tokens(_, _)
parse_tokens(tokens, parts) ==
    IF tokens = << >> THEN parts
    ELSE LET token == Head(tokens)
         IN  parse_tokens(Tail(tokens),
                 IF HasEq(token)
                 THEN LET kv == split_eq(token)
                      IN  DictSet(parts, strip(kv[1]), strip(kv[2]))
                 ELSE parts)

parse_azure_conn_str(conn_str) == parse_tokens(split(conn_str), EmptyDict)

-----------------------------------------------------------------------------
(* build_url *)

Required == <<S_host, S_dbname, S_user, S_password>>

\* all(k in d and d[k] for k in required)
AzureComplete(d) ==
    \A i \in 1..Len(Required) : Required[i] \in DOMAIN d /\ d[Required[i]] # << >>

AzureSslmode_ignored(d) == S_require

\* sslmode = d.get("sslmode", "require")
AzureSslmode(d) == DictGet(d, S_sslmode, S_require)

\* the argument of int(d.get("port", 5432)) is a str or the int 5432
AzurePortOk(d) == S_port \in DOMAIN d => IsIntLiteral(d[S_port])
AzurePort(d) == IF S_port \in DOMAIN d THEN int(d[S_port]) ELSE DefaultPort

AzurePath(azure_conn, driver) ==
    LET d == parse_azure_conn_str(azure_conn)
    IN  IF ~AzureComplete(d)
        THEN Raise("RuntimeError", MsgIncomplete, <<LogAzure>>)
        ELSE IF ~AzurePortOk(d)
        THEN Raise("ValueError", "invalid literal for int()", <<LogAzure>>)
        ELSE Return(URL_create(driver, Some(d[S_user]), Some(d[S_password]),
                               Some(d[S_host]), Some(AzurePort(d)),
                               Some(d[S_dbname]),
                               (S_sslmode :> AzureSslmode(d))),
                    <<LogAzure>>)

SplitQuery_always(host) == (S_sslmode :> S_require)

\* {"sslmode": "require"} if "azure.com" in (host or "") else {}
SplitQuery(host) ==
    IF Contains(S_azure_com, PyOr(host, Some(<< >>))[1])
    THEN (S_sslmode :> S_require)
    ELSE EmptyDict

SplitPath(host, name, user, pwd, port, driver) ==
    Return(URL_create(driver, user, pwd, host, Some(port), name, SplitQuery(host)),
           <<LogSplit>>)

\* URL.create(database_url): the whole value is the drivername argument
DatabaseUrlPath(database_url) ==
    Return(URL_create(database_url, None, None, None, None, None, EmptyDict),
           <<LogDatabaseUrl>>)

Driver_fixed(e) == DefaultDriver

\* driver = os.getenv("DB_DRIVER", "postgresql+psycopg")
Driver(e) == getenv_default(e, "DB_DRIVER", DefaultDriver)

Host(e) == PyOr(getenv(e, "DBHOST"), getenv(e, "DB_HOST"))
Name(e) == PyOr(getenv(e, "DBNAME"), getenv(e, "DB_NAME"))
User(e) == PyOr(getenv(e, "DBUSER"), getenv(e, "DB_USER"))
Pwd(e) == PyOr(getenv(e, "DBPASS"), getenv(e, "DB_PASSWORD"))
\* the argument of int(...) on line 35
PortArg(e) == PyOr(PyOr(getenv(e, "DBPORT"), getenv(e, "DB_PORT")), Some(S_5432))[1]

build_url(e) ==
    LET database_url == getenv(e, "DATABASE_URL")
        azure_conn == getenv(e, "AZURE_POSTGRESQL_CONNECTIONSTRING")
    IN  IF ~IsIntLiteral(PortArg(e))
        THEN Raise("ValueError", "invalid literal for int()", << >>)
        ELSE IF Truthy(database_url) THEN DatabaseUrlPath(database_url[1])
        ELSE IF Truthy(azure_conn) THEN AzurePath(azure_conn[1], Driver(e))
        ELSE IF all(<<Host(e), Name(e), User(e), Pwd(e)>>)
        THEN SplitPath(Host(e), Name(e), User(e), Pwd(e), int(PortArg(e)), Driver(e))
        ELSE Raise("RuntimeError", MsgNoConfig, << >>)

-----------------------------------------------------------------------------
(* The environments the model starts from *)

VarNames ==
    {"DATABASE_URL", "AZURE_POSTGRESQL_CONNECTIONSTRING", "DBHOST", "DB_HOST",
     "DBNAME", "DB_NAME", "DBUSER", "DB_USER", "DBPASS", "DB_PASSWORD",
     "DBPORT", "DB_PORT", "DB_DRIVER"}

AzureComplete1 == <<"h", "o", "s", "t", "=", "h", " ", "d", "b", "n", "a", "m", "e", "=", "d", " ", "u", "s", "e", "r", "=", "u", " ", "p", "a", "s", "s", "w", "o", "r", "d", "=", "p", "=", "q">>
AzureComplete2 == <<"h", "o", "s", "t", "=", "g", " ", " ", "p", "o", "r", "t", "=", "6", "5", "4", "3", " ", "h", "o", "s", "t", "=", "h", "\t", "d", "b", "n", "a", "m", "e", "=", "d", " ", "u", "s", "e", "r", "=", "u", " ", "p", "a", "s", "s", "w", "o", "r", "d", "=", "p", "w", " ", "s", "s", "l", "m", "o", "d", "e", "=", "d", "i", "s", "a", "b", "l", "e", " ", "j", "u", "n", "k">>
AzureEmptySsl == <<"h", "o", "s", "t", "=", "h", " ", "d", "b", "n", "a", "m", "e", "=", "d", " ", "u", "s", "e", "r", "=", "u", " ", "p", "a", "s", "s", "w", "o", "r", "d", "=", "p", "w", " ", "s", "s", "l", "m", "o", "d", "e", "=">>
AzureNoPassword == <<"h", "o", "s", "t", "=", "h", " ", "d", "b", "n", "a", "m", "e", "=", "d", " ", "u", "s", "e", "r", "=", "u">>
AzureEmptyHost == <<"h", "o", "s", "t", "=", " ", "d", "b", "n", "a", "m", "e", "=", "d", " ", "u", "s", "e", "r", "=", "u", " ", "p", "a", "s", "s", "w", "o", "r", "d", "=", "p", "w">>
AzureBadPort == <<"h", "o", "s", "t", "=", "h", " ", "p", "o", "r", "t", "=", "x", " ", "d", "b", "n", "a", "m", "e", "=", "d", " ", "u", "s", "e", "r", "=", "u", " ", "p", "a", "s", "s", "w", "o", "r", "d", "=", "p", "w">>
AzureBlank == <<" ">>

Values(v) ==
    CASE v = "DATABASE_URL" -> {<< >>, <<"p", "o", "s", "t", "g", "r", "e", "s", "q", "l", ":", "/", "/", "u", ":", "p", "@", "h", "/", "d">>}
      [] v = "AZURE_POSTGRESQL_CONNECTIONSTRING" ->
            {<< >>, AzureComplete1, AzureComplete2, AzureEmptySsl,
             AzureNoPassword, AzureEmptyHost, AzureBadPort, AzureBlank}
      [] v = "DBHOST" -> {<< >>, <<"d", "b", ".", "i", "n", "t", "e", "r", "n", "a", "l">>}
      [] v = "DB_HOST" -> {<<"p", "g", ".", "a", "z", "u", "r", "e", ".", "c", "o", "m">>, <<"a", "z", "u", "r", "e", ".", "c", "o">>}
      [] v = "DBNAME" -> {<< >>, <<"a", "p", "p">>}
      [] v = "DB_NAME" -> {<<"a", "p", "p", "2">>}
      [] v = "DBUSER" -> {<< >>, <<"u">>}
      [] v = "DB_USER" -> {<<"v">>}
      [] v = "DBPASS" -> {<< >>, <<"p">>}
      [] v = "DB_PASSWORD" -> {<<"q">>}
      [] v = "DBPORT" -> {<< >>, <<"6", "5", "4", "3">>, <<"a", "b", "c">>}
      [] v = "DB_PORT" -> {<<"5", "4", "3", "3">>, <<" ", "+", "5", "_", "4">>}
      [] v = "DB_DRIVER" -> {<< >>, <<"p", "o", "s", "t", "g", "r", "e", "s", "q", "l", "+", "p", "s", "y", "c", "o", "p", "g", "2">>}

RECURSIVE Environs(_)
Environs(S) ==
    IF S = {} THEN {<< >>}
    ELSE LET v == CHOOSE x \in S : TRUE
         IN  {f @@ (v :> val) : f \in Environs(S \ {v}), val \in Values(v)}

\* the sets of variables that may be set together
SetVars == {T \in SUBSET VarNames : Cardinality(T) <= MaxSet}

-----------------------------------------------------------------------------
(* Module start-up: lines 82-83 *)

VARIABLES env, pc, url, engine

vars == <<env, pc, url, engine>>

NotCalled == [kind |-> "none", exc |-> "", msg |-> "", value |-> None, log |-> << >>]

Init ==
    /\ \E S \in SetVars : env \in Environs(S)
    /\ pc = "start"
    /\ url = NotCalled
    /\ engine = None

\* url = build_url()   (an exception ends the import of the module)
CallBuildUrl ==
    /\ pc = "start"
    /\ url' = build_url(env)
    /\ pc' = IF url'.kind = "return" THEN "built" ELSE "failed"
    /\ UNCHANGED <<env, engine>>

\* engine = create_engine(url, pool_pre_ping=True)
CreateEngine ==
    /\ pc = "built"
    /\ engine' = Some([url |-> url.value[1], pool_pre_ping |-> TRUE])
    /\ pc' = "ready"
    /\ UNCHANGED <<env, url>>

Next == CallBuildUrl \/ CreateEngine

Spec == Init /\ [][Next]_vars

-----------------------------------------------------------------------------
(* Vocabulary of the properties *)

Called == pc # "start"
Returned == url.kind = "return"
Raised == url.kind = "raise"
Desc == url.value[1]

DatabaseUrlSet == Truthy(getenv(env, "DATABASE_URL"))
AzureSet == Truthy(getenv(env, "AZURE_POSTGRESQL_CONNECTIONSTRING"))
AzureChosen == ~DatabaseUrlSet /\ AzureSet
SplitOrNone == ~DatabaseUrlSet /\ ~AzureSet
AzureDict == parse_azure_conn_str(env["AZURE_POSTGRESQL_CONNECTIONSTRING"])

Restrict(e, S) == [v \in (DOMAIN e) \cap S |-> e[v]]
NonEmpty(name) == name \in DOMAIN env /\ env[name] # << >>
Resolved(short, prefixed) == NonEmpty(short) \/ NonEmpty(prefixed)

\* the value a split field must have: the short form when non-empty,
\* otherwise the prefixed form
FirstNonEmptyIs(short, prefixed, value) ==
    /\ NonEmpty(short) => value = Some(env[short])
    /\ ~NonEmpty(short) => NonEmpty(prefixed) /\ value = Some(env[prefixed])

-----------------------------------------------------------------------------
\* C1: whenever DATABASE_URL is set, the call returns a descriptor, and the
\* outcome is the outcome of the environment that holds DATABASE_URL only
\* (no other variable changes it or makes the call fail).
C1_DatabaseUrlAlone ==
    (Called /\ DatabaseUrlSet) =>
        /\ Returned
        /\ url = build_url(Restrict(env, {"DATABASE_URL"}))

\* C2: every returned descriptor is fully populated: driver, username,
\* password, host, port and database are all set.
C2_FullyPopulated ==
    (Called /\ Returned) =>
        /\ Desc.drivername # << >>
        /\ Desc.username # None
        /\ Desc.password # None
        /\ Desc.host # None
        /\ Desc.port # None
        /\ Desc.database # None

\* C3: a failing call raises RuntimeError, and only because the chosen
\* connection string is incomplete or because no path matched.
C3_OnlyConfigurationError ==
    (Called /\ Raised) =>
        /\ url.exc = "RuntimeError"
        /\ \/ AzureChosen /\ ~AzureComplete(AzureDict) /\ url.msg = MsgIncomplete
           \/ SplitOrNone /\ url.msg = MsgNoConfig
              /\ ~(Resolved("DBHOST", "DB_HOST") /\ Resolved("DBNAME", "DB_NAME")
                    /\ Resolved("DBUSER", "DB_USER") /\ Resolved("DBPASS", "DB_PASSWORD"))

\* C4: with DATABASE_URL unset or empty and a non-empty connection string,
\* the outcome is decided by the connection string path alone: it is the
\* outcome of the environment without any split variable.
C4_AzureDecides ==
    (Called /\ AzureChosen) =>
        url = build_url(Restrict(env, {"AZURE_POSTGRESQL_CONNECTIONSTRING", "DB_DRIVER"}))

\* C5: on the connection string path, a string in which host, dbname, user
\* or password is missing or empty makes the call fail with the
\* configuration error that names the connection string as incomplete.
C5_IncompleteFails ==
    (Called /\ AzureChosen
        /\ \E k \in {S_host, S_dbname, S_user, S_password} :
               k \notin DOMAIN AzureDict \/ AzureDict[k] = << >>) =>
        /\ Raised
        /\ url.exc = "RuntimeError"
        /\ url.msg = MsgIncomplete

\* C6: a descriptor returned on the connection string path has the query
\* {sslmode: require} when the string has no sslmode key and {sslmode: the
\* key's value} when it has one; its port is the string's port key, or 5432
\* when the string has no port key.
C6_AzureSslmodeAndPort ==
    (Called /\ AzureChosen /\ Returned) =>
        /\ S_sslmode \notin DOMAIN AzureDict => Desc.query = (S_sslmode :> <<"r", "e", "q", "u", "i", "r", "e">>)
        /\ S_sslmode \in DOMAIN AzureDict => Desc.query = (S_sslmode :> AzureDict[S_sslmode])
        /\ S_port \notin DOMAIN AzureDict => Desc.port = Some(5432)
        /\ S_port \in DOMAIN AzureDict => Desc.port = Some(int(AzureDict[S_port]))

C6_Witness ==
    /\ Called /\ AzureChosen /\ Returned
    /\ S_sslmode \notin DOMAIN AzureDict
    /\ S_port \notin DOMAIN AzureDict
    /\ Desc.query = (S_sslmode :> <<"r", "e", "q", "u", "i", "r", "e">>)
    /\ Desc.port = Some(5432)

\* C7: a descriptor returned on the split variable path has the query
\* {sslmode: require} when its host contains "azure.com" and the empty query
\* otherwise.
C7_SplitQuery ==
    (Called /\ SplitOrNone /\ Returned) =>
        /\ Resolved("DBHOST", "DB_HOST") /\ Resolved("DBNAME", "DB_NAME")
        /\ Resolved("DBUSER", "DB_USER") /\ Resolved("DBPASS", "DB_PASSWORD")
        /\ Contains(<<"a", "z", "u", "r", "e", ".", "c", "o", "m">>, Desc.host[1]) => Desc.query = (S_sslmode :> <<"r", "e", "q", "u", "i", "r", "e">>)
        /\ ~Contains(<<"a", "z", "u", "r", "e", ".", "c", "o", "m">>, Desc.host[1]) => Desc.query = EmptyDict

C7_Witness ==
    /\ Called /\ SplitOrNone /\ Returned
    /\ Contains(<<"a", "z", "u", "r", "e", ".", "c", "o", "m">>, Desc.host[1])
    /\ Desc.query = (S_sslmode :> <<"r", "e", "q", "u", "i", "r", "e">>)

\* C8: with DATABASE_URL and the connection string unset or empty and one of
\* host, name, user, password unresolved under both of its names, the call
\* fails with the configuration error that lists the three methods.
C8_NoSourceFails ==
    (Called /\ SplitOrNone
        /\ ~(Resolved("DBHOST", "DB_HOST") /\ Resolved("DBNAME", "DB_NAME")
              /\ Resolved("DBUSER", "DB_USER") /\ Resolved("DBPASS", "DB_PASSWORD"))) =>
        /\ Raised
        /\ url.exc = "RuntimeError"
        /\ url.msg = MsgNoConfig

\* C9: on the connection string path and on the split variable path the
\* driver of the returned descriptor is DB_DRIVER when that variable is set
\* and "postgresql+psycopg" when it is not; on the DATABASE_URL path the
\* returned descriptor is the one returned without DB_DRIVER.
C9_Driver ==
    (Called /\ Returned) =>
        /\ (~DatabaseUrlSet /\ "DB_DRIVER" \in DOMAIN env) =>
               Desc.drivername = env["DB_DRIVER"]
        /\ (~DatabaseUrlSet /\ "DB_DRIVER" \notin DOMAIN env) =>
               Desc.drivername = <<"p", "o", "s", "t", "g", "r", "e", "s", "q", "l", "+", "p", "s", "y", "c", "o", "p", "g">>
        /\ DatabaseUrlSet =>
               url = build_url(Restrict(env, VarNames \ {"DB_DRIVER"}))

C9_Witness ==
    /\ Called /\ Returned /\ ~DatabaseUrlSet
    /\ "DB_DRIVER" \in DOMAIN env
    /\ Desc.drivername = <<"p", "o", "s", "t", "g", "r", "e", "s", "q", "l", "+", "p", "s", "y", "c", "o", "p", "g", "2">>

\* C10: on the split variable path every field of the returned descriptor is
\* the short-form variable when that is non-empty and the prefixed variable
\* otherwise, independently per field; the port is 5432 when neither port
\* variable is non-empty.
C10_ShortFormFirst ==
    (Called /\ SplitOrNone /\ Returned) =>
        /\ FirstNonEmptyIs("DBHOST", "DB_HOST", Desc.host)
        /\ FirstNonEmptyIs("DBNAME", "DB_NAME", Desc.database)
        /\ FirstNonEmptyIs("DBUSER", "DB_USER", Desc.username)
        /\ FirstNonEmptyIs("DBPASS", "DB_PASSWORD", Desc.password)
        /\ NonEmpty("DBPORT") => Desc.port = Some(int(env["DBPORT"]))
        /\ (~NonEmpty("DBPORT") /\ NonEmpty("DB_PORT")) =>
               Desc.port = Some(int(env["DB_PORT"]))
        /\ (~NonEmpty("DBPORT") /\ ~NonEmpty("DB_PORT")) => Desc.port = Some(5432)

\* both forms of the host are non-empty and the short one is used, while an
\* empty DBNAME falls back to DB_NAME
C10_Witness ==
    /\ Called /\ SplitOrNone /\ Returned
    /\ NonEmpty("DBHOST") /\ NonEmpty("DB_HOST")
    /\ Desc.host = Some(env["DBHOST"])
    /\ "DBNAME" \in DOMAIN env /\ env["DBNAME"] = << >>
    /\ Desc.database = Some(env["DB_NAME"])

=============================================================================
